---- MODULE Spec2Model ----
(***************************************************************************)
(* The S3 command shell of s3_handler.py: the read/collapse/dispatch loop  *)
(* of main, S3Handler.dispatch, the six operation wrappers and the two     *)
(* existence checks, over an explicit storage backend (the containers and  *)
(* objects of the account) and the local directory.                        *)
(*                                                                         *)
(* Python strings are sequences of one-character strings, so that split,   *)
(* join, % formatting and str() are computed and not assumed.              *)
(***************************************************************************)
EXTENDS Integers, Sequences, FiniteSets, TLC

\* ------------------------------------------------------------------ bounds
\* Longest argument list typed after a command keyword.
MaxArgs == 3
\* Longest run of whitespace typed between, before or after tokens.
MaxPad == 2
\* Latest value of the millisecond clock; the clock reads MaxTime - 1 or MaxTime.
MaxTime == 10

\* ------------------------------------------------------- string primitives
Whitespace == {" ", "\t"}

RECURSIVE Join(_, _)
\* sep.join(seqs)
Join(sep, seqs) ==
    IF seqs = <<>> THEN <<>>
    ELSE IF Len(seqs) = 1 THEN seqs[1]
    ELSE seqs[1] \o sep \o Join(sep, Tail(seqs))

\* the first position of s whose character is in set C, 0 when there is none
FirstIn(s, C) ==
    IF \E i \in 1..Len(s) : s[i] \in C
    THEN CHOOSE i \in 1..Len(s) : s[i] \in C /\ \A j \in 1..(i - 1) : s[j] \notin C
    ELSE 0

\* the first position of s whose character is not in set C, 0 when there is none
FirstNotIn(s, C) ==
    IF \E i \in 1..Len(s) : s[i] \notin C
    THEN CHOOSE i \in 1..Len(s) : s[i] \notin C /\ \A j \in 1..(i - 1) : s[j] \in C
    ELSE 0

RECURSIVE SplitOn(_, _)
\* s.split(ch) for a one-character separator: every occurrence of ch ends a
\* token, empty tokens are kept, and the empty string splits into [''].
SplitOn(s, ch) ==
    LET i == FirstIn(s, {ch})
    IN  IF i = 0 THEN <<s>>
        ELSE <<SubSeq(s, 1, i - 1)>> \o SplitOn(SubSeq(s, i + 1, Len(s)), ch)

RECURSIVE SplitWs(_)
\* s.split() with no separator: runs of whitespace separate tokens and no
\* empty token is produced.
SplitWs(s) ==
    LET i == FirstNotIn(s, Whitespace)
    IN  IF i = 0 THEN <<>>
        ELSE LET rest == SubSeq(s, i, Len(s))
                 j == FirstIn(rest, Whitespace)
             IN  IF j = 0 THEN <<rest>>
                 ELSE <<SubSeq(rest, 1, j - 1)>> \o SplitWs(SubSeq(rest, j, Len(rest)))

Digits == <<"0", "1", "2", "3", "4", "5", "6", "7", "8", "9">>

RECURSIVE ToStr(_)
\* str(n) of a non-negative integer
ToStr(n) ==
    IF n < 10 THEN <<Digits[n + 1]>>
    ELSE ToStr(n \div 10) \o <<Digits[(n % 10) + 1]>>

\* the first position of the directive %s in fmt, 0 when there is none
Directive(fmt) ==
    IF \E i \in 1..(Len(fmt) - 1) : fmt[i] = "%" /\ fmt[i + 1] = "s"
    THEN CHOOSE i \in 1..(Len(fmt) - 1) :
             /\ fmt[i] = "%" /\ fmt[i + 1] = "s"
             /\ \A j \in 1..(i - 1) : ~(fmt[j] = "%" /\ fmt[j + 1] = "s")
    ELSE 0

RECURSIVE Format(_, _)
\* fmt % args, for a format whose only directive is %s
Format(fmt, args) ==
    LET i == Directive(fmt)
    IN  IF i = 0 THEN fmt
        ELSE SubSeq(fmt, 1, i - 1) \o Head(args)
             \o Format(SubSeq(fmt, i + 2, Len(fmt)), Tail(args))

\* needle in hay
Contains(hay, needle) ==
    \E i \in 1..(Len(hay) - Len(needle) + 1) :
        SubSeq(hay, i, i + Len(needle) - 1) = needle

StartsWith(s, prefix) ==
    Len(s) >= Len(prefix) /\ SubSeq(s, 1, Len(prefix)) = prefix

\* os.path.splitext(file_name): the extension starts at the last dot of the
\* last path component, unless only dots precede it there.
LastIndex(s, ch) ==
    IF \E i \in 1..Len(s) : s[i] = ch
    THEN CHOOSE i \in 1..Len(s) : s[i] = ch /\ \A j \in (i + 1)..Len(s) : s[j] # ch
    ELSE 0

splitext(file_name) ==
    LET sep == LastIndex(file_name, "/")
        dot == LastIndex(file_name, ".")
    IN  IF dot > sep /\ \E i \in (sep + 1)..(dot - 1) : file_name[i] # "."
        THEN <<SubSeq(file_name, 1, dot - 1), SubSeq(file_name, dot, Len(file_name))>>
        ELSE <<file_name, <<>>>>

\* ---------------------------------------------------- literals of the source
REGION == <<"u", "s", "-", "e", "a", "s", "t", "-", "2">>

KW_createdir == <<"c", "r", "e", "a", "t", "e", "d", "i", "r">>
KW_upload    == <<"u", "p", "l", "o", "a", "d">>
KW_download  == <<"d", "o", "w", "n", "l", "o", "a", "d">>
KW_delete    == <<"d", "e", "l", "e", "t", "e">>
KW_deletedir == <<"d", "e", "l", "e", "t", "e", "d", "i", "r">>
KW_find      == <<"f", "i", "n", "d">>
KW_listdir   == <<"l", "i", "s", "t", "d", "i", "r">>
KW_exit      == <<"e", "x", "i", "t">>
KW_help      == <<"h", "e", "l", "p">>

error_message_dict ==
    [incorrect_parameter_number |-> <<"I", "n", "c", "o", "r", "r", "e", "c", "t", " ", "n", "u", "m", "b", "e", "r", " ", "o", "f", " ", "p", "a", "r", "a", "m", "e", "t", "e", "r", "s", " ", "p", "r", "o", "v", "i", "d", "e", "d">>,
     not_implemented            |-> <<"F", "u", "n", "c", "t", "i", "o", "n", "a", "l", "i", "t", "y", " ", "n", "o", "t", " ", "i", "m", "p", "l", "e", "m", "e", "n", "t", "e", "d", " ", "y", "e", "t", "!">>,
     bucket_name_exists         |-> <<"D", "i", "r", "e", "c", "t", "o", "r", "y", " ", "a", "l", "r", "e", "a", "d", "y", " ", "e", "x", "i", "s", "t", "s", ".">>,
     bucket_name_empty          |-> <<"D", "i", "r", "e", "c", "t", "o", "r", "y", " ", "n", "a", "m", "e", " ", "c", "a", "n", "n", "o", "t", " ", "b", "e", " ", "e", "m", "p", "t", "y", ".">>,
     bucket_not_empty           |-> <<"D", "i", "r", "e", "c", "t", "o", "r", "y", " ", "i", "s", " ", "n", "o", "t", " ", "e", "m", "p", "t", "y", ".", " ", "D", "e", "l", "e", "t", "e", " ", "o", "b", "j", "e", "c", "t", "s", " ", "b", "e", "f", "o", "r", "e", " ", "p", "r", "o", "c", "e", "e", "d", "i", "n", "g", ".">>,
     missing_source_file        |-> <<"S", "o", "u", "r", "c", "e", " ", "f", "i", "l", "e", " ", "c", "a", "n", "n", "o", "t", " ", "b", "e", " ", "f", "o", "u", "n", "d", ".">>,
     non_existent_bucket        |-> <<"D", "i", "r", "e", "c", "t", "o", "r", "y", " ", "d", "o", "e", "s", " ", "n", "o", "t", " ", "e", "x", "i", "s", "t", ".">>,
     non_existent_object        |-> <<"D", "e", "s", "t", "i", "n", "a", "t", "i", "o", "n", " ", "o", "b", "j", "e", "c", "t", " ", "d", "o", "e", "s", " ", "n", "o", "t", " ", "e", "x", "i", "s", "t", ".">>,
     not_authorized_bucket      |-> <<"Y", "o", "u", " ", "a", "r", "e", " ", "n", "o", "t", " ", "a", "u", "t", "h", "o", "r", "i", "z", "e", "d", " ", "t", "o", " ", "a", "c", "c", "e", "s", "s", " ", "t", "h", "i", "s", " ", "d", "i", "r", "e", "c", "t", "o", "r", "y">>,
     unknown_error              |-> <<"S", "o", "m", "e", "t", "h", "i", "n", "g", " ", "w", "a", "s", " ", "n", "o", "t", " ", "c", "o", "r", "r", "e", "c", "t", " ", "w", "i", "t", "h", " ", "t", "h", "e", " ", "r", "e", "q", "u", "e", "s", "t", ".", " ", "T", "r", "y", " ", "a", "g", "a", "i", "n", ".">>]

\* S3Handler._error_messages(issue); issue "" is Python's falsy issue
_error_messages(issue) ==
    IF issue # "" THEN error_message_dict[issue]
    ELSE error_message_dict["unknown_error"]

MSG_not_recognized     == <<"C", "o", "m", "m", "a", "n", "d", " ", "n", "o", "t", " ", "r", "e", "c", "o", "g", "n", "i", "z", "e", "d", ".">>
MSG_goodbye            == <<"G", "o", "o", "d", "b", "y", "e", "!">>
MSG_buckets_header     == <<"A", "v", "a", "l", "i", "a", "b", "l", "e", " ", "b", "u", "c", "k", "e", "t", "s", " ", "l", "i", "s", "t", ":">>
FMT_objects_header     == <<"A", "v", "a", "i", "l", "a", "b", "l", "e", " ", "o", "b", "j", "e", "c", "t", "s", " ", "i", "n", " ", "d", "i", "r", "e", "c", "t", "o", "r", "y", " ", "%", "s", ":">>
FMT_created            == <<"D", "i", "r", "e", "c", "t", "o", "r", "y", " ", "%", "s", " ", "c", "r", "e", "a", "t", "e", "d", ".">>
FMT_uploaded           == <<"F", "i", "l", "e", " ", "%", "s", " ", "u", "p", "l", "o", "a", "d", "e", "d", " ", "t", "o", " ", "b", "u", "c", "k", "e", "t", " ", "%", "s", ".">>
FMT_upload_failed      == <<"F", "a", "i", "l", "e", "d", " ", "t", "o", " ", "u", "p", "l", "o", "a", "d", " ", "%", "s", " ", "t", "o", " ", "%", "s", ":", " ", "%", "s">>
FMT_downloaded         == <<"O", "b", "j", "e", "c", "t", " ", "%", "s", " ", "d", "o", "w", "n", "l", "o", "a", "d", "e", "d", " ", "f", "r", "o", "m", " ", "b", "u", "c", "k", "e", "t", " ", "%", "s", ".">>
FMT_download_failed    == <<"F", "a", "i", "l", "e", "d", " ", "t", "o", " ", "d", "o", "w", "n", "l", "o", "a", "d", " ", "%", "s", " ", "t", "o", " ", "%", "s", ":", " ", "%", "s">>
FMT_deleted            == <<"O", "b", "j", "e", "c", "t", " ", "%", "s", " ", "d", "e", "l", "e", "t", "e", "d", " ", "f", "r", "o", "m", " ", "b", "u", "c", "k", "e", "t", " ", "%", "s", ".">>
FMT_delete_failed      == <<"F", "a", "i", "l", "e", "d", " ", "t", "o", " ", "d", "e", "l", "e", "t", "e", " ", "%", "s", " ", "f", "r", "o", "m", " ", "d", "i", "r", "e", "c", "t", "o", "r", "y", " ", "%", "s", ":", " ", "%", "s">>
FMT_bucket_deleted     == <<"D", "e", "l", "e", "t", "e", "d", " ", "b", "u", "c", "k", "e", "t", " ", "%", "s", ".">>
FMT_bucket_del_failed  == <<"F", "a", "i", "l", "e", "d", " ", "t", "o", " ", "d", "e", "l", "e", "t", "e", " ", "b", "u", "c", "k", "e", "t", " ", "%", "s", ":", " ", "%", "s">>
BAK_INFIX              == <<".", "b", "a", "k", ".">>

help_lines ==
    << <<"S", "u", "p", "p", "o", "r", "t", "e", "d", " ", "C", "o", "m", "m", "a", "n", "d", "s", ":">>,
       <<"1", ".", " ", "c", "r", "e", "a", "t", "e", "d", "i", "r", " ", "<", "b", "u", "c", "k", "e", "t", "_", "n", "a", "m", "e", ">">>,
       <<"2", ".", " ", "u", "p", "l", "o", "a", "d", " ", "<", "s", "o", "u", "r", "c", "e", "_", "f", "i", "l", "e", "_", "n", "a", "m", "e", ">", " ", "<", "b", "u", "c", "k", "e", "t", "_", "n", "a", "m", "e", ">", " ", "[", "<", "d", "e", "s", "t", "_", "o", "b", "j", "e", "c", "t", "_", "n", "a", "m", "e", ">", "]">>,
       <<"3", ".", " ", "d", "o", "w", "n", "l", "o", "a", "d", " ", "<", "d", "e", "s", "t", "_", "o", "b", "j", "e", "c", "t", "_", "n", "a", "m", "e", ">", " ", "<", "b", "u", "c", "k", "e", "t", "_", "n", "a", "m", "e", ">", " ", "[", "<", "s", "o", "u", "r", "c", "e", "_", "f", "i", "l", "e", "_", "n", "a", "m", "e", ">", "]">>,
       <<"4", ".", " ", "d", "e", "l", "e", "t", "e", " ", "<", "d", "e", "s", "t", "_", "o", "b", "j", "e", "c", "t", "_", "n", "a", "m", "e", ">", " ", "<", "b", "u", "c", "k", "e", "t", "_", "n", "a", "m", "e", ">">>,
       <<"5", ".", " ", "d", "e", "l", "e", "t", "e", "d", "i", "r", " ", "<", "b", "u", "c", "k", "e", "t", "_", "n", "a", "m", "e", ">">>,
       <<"6", ".", " ", "f", "i", "n", "d", " ", "<", "f", "i", "l", "e", "_", "e", "x", "t", "e", "n", "s", "i", "o", "n", ">", " ", "[", "<", "b", "u", "c", "k", "e", "t", "_", "n", "a", "m", "e", ">", "]", " ", "-", "-", " ", "e", ".", "g", ".", ":", " ", "1", ".", " ", "f", "i", "n", "d", " ", "t", "x", "t", " ", " ", "2", ".", " ", "f", "i", "n", "d", " ", "t", "x", "t", " ", "b", "u", "c", "k", "e", "t", "1", " ", "-", "-">>,
       <<"7", ".", " ", "l", "i", "s", "t", "d", "i", "r", " ", "[", "<", "b", "u", "c", "k", "e", "t", "_", "n", "a", "m", "e", ">", "]">> >>

\* ------------------------------------------------------------------- state
VARIABLES
    buckets,          \* the containers of the account: a set of names
    objects,          \* [<<bucket, key>> -> content] of the stored objects
    files,            \* [path -> content] of the local directory; a content
                      \* is "local" or "remote", after where it was at the start
    pc,               \* "running", "exited" (SystemExit) or "crashed" (any other escape)
    line,             \* the line input() returned in the last iteration
    command_string,   \* main's command_string after whitespace collapsing
    parts,            \* dispatch's parts; <<>> when dispatch was not called
    wrapper,          \* the S3Handler method the iteration called, "" when none
    response,         \* [kind, val, exc]: what the iteration's call returned or raised
    trace,            \* the existence checks and backend calls of the iteration
    stdout,           \* what the iteration printed
    time_in_millis    \* download's last reading of the clock

vars == <<buckets, objects, files, pc, line, command_string, parts, wrapper,
          response, trace, stdout, time_in_millis>>

\* Names typed as arguments: file names, container names and object keys.
Names == { <<"b", ".", "t">> }

\* The readings of the millisecond clock, int(round(time.time() * 1000)).
Times == (MaxTime - 1)..MaxTime

\* ------------------------------------------------------------- exceptions
\* Python's class hierarchy, as far as the program meets it.
Base ==
    [ClientError             |-> "Exception",
     EndpointConnectionError |-> "Exception",
     S3UploadFailedError     |-> "Exception",
     AttributeError          |-> "Exception",
     EOFError                |-> "Exception",
     TypeError               |-> "Exception",
     Exception               |-> "BaseException",
     SystemExit              |-> "BaseException",
     BaseException           |-> ""]

RECURSIVE IsSubclass(_, _)
IsSubclass(cls, of) ==
    IF cls = of THEN TRUE
    ELSE IF cls = "" THEN FALSE
    ELSE IsSubclass(Base[cls], of)

NoExc == [cls |-> "", code |-> <<>>, op |-> <<>>, msg |-> <<>>]

\* botocore's ClientError: e.response['Error']['Code'] is code
ClientError(code, op) ==
    [cls |-> "ClientError", code |-> code, op |-> op, msg |-> code]

\* an exception of the SDK that carries no response attribute
ConnError(op) ==
    [cls |-> "EndpointConnectionError", code |-> <<>>, op |-> op,
     msg |-> <<"C", "o", "u", "l", "d", " ", "n", "o", "t", " ", "c", "o", "n", "n", "e", "c", "t", " ", "t", "o", " ", "t", "h", "e", " ", "e", "n", "d", "p", "o", "i", "n", "t", " ", "U", "R", "L">>]

UploadFailed(op) ==
    [cls |-> "S3UploadFailedError", code |-> <<>>, op |-> op,
     msg |-> <<"F", "a", "i", "l", "e", "d", " ", "t", "o", " ", "u", "p", "l", "o", "a", "d">>]

\* e.response on an exception without that attribute
AttributeError(e) ==
    [cls |-> "AttributeError", code |-> <<>>, op |-> e.op,
     msg |-> <<"o", "b", "j", "e", "c", "t", " ", "h", "a", "s", " ", "n", "o", " ", "a", "t", "t", "r", "i", "b", "u", "t", "e", " ", "'", "r", "e", "s", "p", "o", "n", "s", "e", "'">>]

HasResponse(e) == e.cls = "ClientError"

\* str(e)
StrExc(e) ==
    IF e.cls = "ClientError"
    THEN Format(<<"A", "n", " ", "e", "r", "r", "o", "r", " ", "o", "c", "c", "u", "r", "r", "e", "d", " ", "(", "%", "s", ")", " ", "w", "h", "e", "n", " ", "c", "a", "l", "l", "i", "n", "g", " ", "t", "h", "e", " ", "%", "s", " ", "o", "p", "e", "r", "a", "t", "i", "o", "n", ":", " ", "%", "s">>,
                <<e.code, e.op, e.msg>>)
    ELSE e.msg

\* ------------------------------------------------------- the storage backend
\* One entry of the iteration's trace.
Entry(op, args, status, exc, ret) ==
    [op |-> op, args |-> args, status |-> status, cls |-> exc.cls,
     code |-> exc.code, ret |-> ret]

\* HTTP statuses the SDK returns as a response instead of raising.
SuccessStatuses == {200, 204}

\* What any call of the backend may fail with whatever the state.
Faults(op, code) == {ClientError(code, op), ConnError(op)}

\* A backend call's outcome: the exception raised (NoExc when it returned), the
\* response's HTTP status and data, and the state it leaves.
Outcome(exc, status, data, b, o, f) ==
    [exc |-> exc, status |-> status, data |-> data,
     buckets |-> b, objects |-> o, files |-> f]

\* the data of a response that lists nothing
NoData == [Buckets |-> <<>>]

Failed(exc) == Outcome(exc, 0, NoData, buckets, objects, files)

\* lexicographic order of strings, by character position in Alphabet
Alphabet == <<".", "0", "1", "2", "3", "4", "5", "6", "7", "8", "9", "a", "b", "k", "t">>
Ord(c) == CHOOSE i \in 1..Len(Alphabet) : Alphabet[i] = c

RECURSIVE LexLess(_, _)
LexLess(s, t) ==
    IF t = <<>> THEN FALSE
    ELSE IF s = <<>> THEN TRUE
    ELSE IF Head(s) = Head(t) THEN LexLess(Tail(s), Tail(t))
    ELSE Ord(Head(s)) < Ord(Head(t))

RECURSIVE Sorted(_)
\* the strings of set S in ascending order
Sorted(S) ==
    IF S = {} THEN <<>>
    ELSE LET m == CHOOSE x \in S : \A y \in S \ {x} : LexLess(x, y)
         IN  <<m>> \o Sorted(S \ {m})

KeysOf(Bucket) == {p[2] : p \in {q \in DOMAIN objects : q[1] = Bucket}}

head_bucket(Bucket) ==
    IF Bucket \in buckets
    THEN {Outcome(NoExc, s, NoData, buckets, objects, files) : s \in SuccessStatuses}
         \cup {Failed(e) : e \in Faults(<<"H", "e", "a", "d", "B", "u", "c", "k", "e", "t">>, <<"4", "0", "3">>)}
    ELSE {Failed(ClientError(<<"4", "0", "4">>, <<"H", "e", "a", "d", "B", "u", "c", "k", "e", "t">>))}
         \cup {Failed(e) : e \in Faults(<<"H", "e", "a", "d", "B", "u", "c", "k", "e", "t">>, <<"4", "0", "3">>)}

head_object(Bucket, Key) ==
    IF <<Bucket, Key>> \in DOMAIN objects
    THEN {Outcome(NoExc, s, NoData, buckets, objects, files) : s \in SuccessStatuses}
         \cup {Failed(e) : e \in Faults(<<"H", "e", "a", "d", "O", "b", "j", "e", "c", "t">>, <<"4", "0", "3">>)}
    ELSE {Failed(ClientError(<<"4", "0", "4">>, <<"H", "e", "a", "d", "O", "b", "j", "e", "c", "t">>))}
         \cup {Failed(e) : e \in Faults(<<"H", "e", "a", "d", "O", "b", "j", "e", "c", "t">>, <<"4", "0", "3">>)}

create_bucket(Bucket, LocationConstraint) ==
    IF Bucket \in buckets
    THEN {Failed(ClientError(<<"B", "u", "c", "k", "e", "t", "A", "l", "r", "e", "a", "d", "y", "O", "w", "n", "e", "d", "B", "y", "Y", "o", "u">>, <<"C", "r", "e", "a", "t", "e", "B", "u", "c", "k", "e", "t">>))}
    ELSE {Outcome(NoExc, 200, NoData, buckets \cup {Bucket}, objects, files)}
         \cup {Failed(e) : e \in Faults(<<"C", "r", "e", "a", "t", "e", "B", "u", "c", "k", "e", "t">>, <<"A", "c", "c", "e", "s", "s", "D", "e", "n", "i", "e", "d">>)}

list_buckets ==
    {Outcome(NoExc, 200, [Buckets |-> [i \in 1..Cardinality(buckets) |->
                                          [Name |-> Sorted(buckets)[i]]]],
             buckets, objects, files)}
    \cup {Failed(e) : e \in Faults(<<"L", "i", "s", "t", "B", "u", "c", "k", "e", "t", "s">>, <<"A", "c", "c", "e", "s", "s", "D", "e", "n", "i", "e", "d">>)}

\* The response of list_objects_v2 is a dict; Contents is present only when
\* the container holds objects.
ListObjectsResponse(Bucket) ==
    LET keys == Sorted(KeysOf(Bucket))
        common == [ResponseMetadata |-> <<>>, IsTruncated |-> <<>>,
                   Name |-> Bucket, Prefix |-> <<>>, MaxKeys |-> <<>>,
                   EncodingType |-> <<>>, KeyCount |-> <<>>]
    IN  IF keys = <<>> THEN common
        ELSE [Contents |-> [i \in 1..Len(keys) |-> [Key |-> keys[i]]]] @@ common

list_objects_v2(Bucket) ==
    IF Bucket \in buckets
    THEN {Outcome(NoExc, 200, ListObjectsResponse(Bucket), buckets, objects, files)}
         \cup {Failed(e) : e \in Faults(<<"L", "i", "s", "t", "O", "b", "j", "e", "c", "t", "s", "V", "2">>, <<"A", "c", "c", "e", "s", "s", "D", "e", "n", "i", "e", "d">>)}
    ELSE {Failed(ClientError(<<"N", "o", "S", "u", "c", "h", "B", "u", "c", "k", "e", "t">>, <<"L", "i", "s", "t", "O", "b", "j", "e", "c", "t", "s", "V", "2">>))}

upload_file(Filename, Bucket, Key, ContentType) ==
    IF Filename \in DOMAIN files /\ Bucket \in buckets
    THEN {Outcome(NoExc, 200, NoData, buckets,
                  (<<Bucket, Key>> :> files[Filename]) @@ objects, files),
          Failed(UploadFailed(<<"P", "u", "t", "O", "b", "j", "e", "c", "t">>))}
    ELSE {Failed(UploadFailed(<<"P", "u", "t", "O", "b", "j", "e", "c", "t">>))}

download_file(Bucket, Key, Filename) ==
    IF <<Bucket, Key>> \in DOMAIN objects
    THEN {Outcome(NoExc, 200, NoData, buckets, objects,
                  (Filename :> objects[<<Bucket, Key>>]) @@ files)}
         \cup {Failed(e) : e \in Faults(<<"G", "e", "t", "O", "b", "j", "e", "c", "t">>, <<"A", "c", "c", "e", "s", "s", "D", "e", "n", "i", "e", "d">>)}
    ELSE {Failed(ClientError(<<"4", "0", "4">>, <<"G", "e", "t", "O", "b", "j", "e", "c", "t">>))}

delete_object(Bucket, Key) ==
    IF Bucket \in buckets
    THEN {Outcome(NoExc, 204, NoData, buckets,
                  [p \in DOMAIN objects \ {<<Bucket, Key>>} |-> objects[p]], files)}
         \cup {Failed(e) : e \in Faults(<<"D", "e", "l", "e", "t", "e", "O", "b", "j", "e", "c", "t">>, <<"A", "c", "c", "e", "s", "s", "D", "e", "n", "i", "e", "d">>)}
    ELSE {Failed(ClientError(<<"N", "o", "S", "u", "c", "h", "B", "u", "c", "k", "e", "t">>, <<"D", "e", "l", "e", "t", "e", "O", "b", "j", "e", "c", "t">>))}

delete_bucket(Bucket) ==
    IF Bucket \notin buckets
    THEN {Failed(ClientError(<<"N", "o", "S", "u", "c", "h", "B", "u", "c", "k", "e", "t">>, <<"D", "e", "l", "e", "t", "e", "B", "u", "c", "k", "e", "t">>))}
    ELSE IF KeysOf(Bucket) # {}
    THEN {Failed(ClientError(<<"B", "u", "c", "k", "e", "t", "N", "o", "t", "E", "m", "p", "t", "y">>, <<"D", "e", "l", "e", "t", "e", "B", "u", "c", "k", "e", "t">>))}
    ELSE {Outcome(NoExc, 204, NoData, buckets \ {Bucket}, objects, files)}
         \cup {Failed(e) : e \in Faults(<<"D", "e", "l", "e", "t", "e", "B", "u", "c", "k", "e", "t">>, <<"A", "c", "c", "e", "s", "s", "D", "e", "n", "i", "e", "d">>)}

\* ------------------------------------------------------ existence checks
Check(ret, exc, tr) == [ret |-> ret, exc |-> exc, trace |-> tr]

\* a bug _get could have: every error code of the backend reads as absence
_get_lenient(bucket_name) ==
    { LET call(x) == Entry("head_bucket", <<bucket_name>>, h.status, h.exc, x)
          got(x, e) == Entry("_get", <<bucket_name>>, 0, e, x)
      IN  IF h.exc # NoExc
          THEN IF ~HasResponse(h.exc)
               THEN Check("raise", AttributeError(h.exc),
                          <<call("raise"), got("raise", AttributeError(h.exc))>>)
               ELSE IF h.exc.code = <<"4", "0", "4">>
               THEN Check("False", NoExc, <<call("raise"), got("False", NoExc)>>)
               ELSE IF h.exc.code = <<"2", "0", "0">>
               THEN Check("True", NoExc, <<call("raise"), got("True", NoExc)>>)
               ELSE Check("False", NoExc, <<call("raise"), got("False", NoExc)>>)
          ELSE IF h.status = 200
               THEN Check("True", NoExc, <<call("ok"), got("True", NoExc)>>)
               ELSE Check("False", NoExc, <<call("ok"), got("False", NoExc)>>)
      : h \in head_bucket(bucket_name) }

\* What _get and _get_object make of the head call's outcome h: "True",
\* "False", or "raise" with the exception that leaves the method.
_get(bucket_name) ==
    { LET call(x) == Entry("head_bucket", <<bucket_name>>, h.status, h.exc, x)
          got(x, e) == Entry("_get", <<bucket_name>>, 0, e, x)
      IN  IF h.exc # NoExc
          THEN IF ~HasResponse(h.exc)
               THEN Check("raise", AttributeError(h.exc),
                          <<call("raise"), got("raise", AttributeError(h.exc))>>)
               ELSE IF h.exc.code = <<"4", "0", "4">>
               THEN Check("False", NoExc, <<call("raise"), got("False", NoExc)>>)
               ELSE IF h.exc.code = <<"2", "0", "0">>
               THEN Check("True", NoExc, <<call("raise"), got("True", NoExc)>>)
               ELSE Check("raise", h.exc, <<call("raise"), got("raise", h.exc)>>)
          ELSE IF h.status = 200
               THEN Check("True", NoExc, <<call("ok"), got("True", NoExc)>>)
               ELSE Check("False", NoExc, <<call("ok"), got("False", NoExc)>>)
      : h \in head_bucket(bucket_name) }

_get_object(bucket_name, object_name) ==
    { LET call(x) == Entry("head_object", <<bucket_name, object_name>>, h.status, h.exc, x)
          got(x, e) == Entry("_get_object", <<bucket_name, object_name>>, 0, e, x)
      IN  IF h.exc # NoExc
          THEN IF ~HasResponse(h.exc)
               THEN Check("raise", AttributeError(h.exc),
                          <<call("raise"), got("raise", AttributeError(h.exc))>>)
               ELSE IF h.exc.code = <<"4", "0", "4">>
               THEN Check("False", NoExc, <<call("raise"), got("False", NoExc)>>)
               ELSE IF h.exc.code = <<"2", "0", "0">>
               THEN Check("True", NoExc, <<call("raise"), got("True", NoExc)>>)
               ELSE Check("raise", h.exc, <<call("raise"), got("raise", h.exc)>>)
          ELSE IF h.status = 200
               THEN Check("True", NoExc, <<call("ok"), got("True", NoExc)>>)
               ELSE Check("False", NoExc, <<call("ok"), got("False", NoExc)>>)
      : h \in head_object(bucket_name, object_name) }

\* ------------------------------------------------------------- wrappers
\* What a method call comes to: it returned val or raised exc, after the calls
\* of tr and the prints of out, leaving the backend and the directory as in w.
Result(kind, val, exc, tr, out, w, t) ==
    [kind |-> kind, val |-> val, exc |-> exc, trace |-> tr, out |-> out,
     buckets |-> w.buckets, objects |-> w.objects, files |-> w.files, time |-> t]

Here == [buckets |-> buckets, objects |-> objects, files |-> files]

Return(val, tr, out) == Result("return", val, NoExc, tr, out, Here, time_in_millis)

Raise(exc, tr, out) == Result("raise", <<>>, exc, tr, out, Here, time_in_millis)

\* the trace entry of backend call op with outcome o
Called(op, args, o) ==
    Entry(op, args, o.status, o.exc, IF o.exc = NoExc THEN "ok" ELSE "raise")

\* S3Handler._get_file_extension: None (here <<>>) for a missing file
_get_file_extension(file_name) ==
    IF file_name \in DOMAIN files THEN splitext(file_name) ELSE <<>>

\* a bug createdir could have: the existence check read the wrong way round
createdir_inverted(bucket_name) ==
    IF bucket_name = <<>>
    THEN {Return(_error_messages("bucket_name_empty"), <<>>, <<>>)}
    ELSE UNION {
        IF g.ret = "raise" THEN {Raise(g.exc, g.trace, <<StrExc(g.exc)>>)}
        ELSE IF g.ret = "False"
        THEN {Return(_error_messages("bucket_name_exists"), g.trace, <<>>)}
        ELSE { LET tr == g.trace \o <<Called("create_bucket", <<bucket_name, REGION>>, c)>>
               IN  IF c.exc # NoExc
                   THEN Raise(c.exc, tr, <<StrExc(c.exc)>>)
                   ELSE Result("return", Format(FMT_created, <<bucket_name>>), NoExc,
                               tr, <<>>, c, time_in_millis)
               : c \in create_bucket(bucket_name, REGION) }
        : g \in _get(bucket_name) }

createdir(bucket_name) ==
    IF bucket_name = <<>>
    THEN {Return(_error_messages("bucket_name_empty"), <<>>, <<>>)}
    ELSE UNION {
        IF g.ret = "raise" THEN {Raise(g.exc, g.trace, <<StrExc(g.exc)>>)}
        ELSE IF g.ret = "True"
        THEN {Return(_error_messages("bucket_name_exists"), g.trace, <<>>)}
        ELSE { LET tr == g.trace \o <<Called("create_bucket", <<bucket_name, REGION>>, c)>>
               IN  IF c.exc # NoExc
                   THEN Raise(c.exc, tr, <<StrExc(c.exc)>>)
                   ELSE Result("return", Format(FMT_created, <<bucket_name>>), NoExc,
                               tr, <<>>, c, time_in_millis)
               : c \in create_bucket(bucket_name, REGION) }
        : g \in _get(bucket_name) }

listdir(bucket_name) ==
    IF bucket_name = <<>>
    THEN { LET tr == <<Called("list_buckets", <<>>, l)>>
           IN  IF l.exc # NoExc THEN Raise(l.exc, tr, <<>>)
               ELSE LET bs == l.data.Buckets
                        result == [i \in 1..Len(bs) |-> bs[i].Name]
                    IN  Return(Join(<<",", " ">>, result), tr, <<MSG_buckets_header>>)
           : l \in list_buckets }
    ELSE UNION {
        IF g.ret = "raise" THEN {Raise(g.exc, g.trace, <<>>)}
        ELSE IF g.ret = "False"
        THEN {Return(_error_messages("non_existent_bucket"), g.trace, <<>>)}
        ELSE { LET tr == g.trace \o <<Called("list_objects_v2", <<bucket_name>>, l)>>
               IN  IF l.exc # NoExc THEN Raise(l.exc, tr, <<>>)
                   ELSE LET object_list == l.data
                            \* for obj in object_list: one pass per key of the dict
                            result == [i \in 1..Cardinality(DOMAIN object_list) |->
                                          object_list["Name"]]
                        IN  Return(Join(<<",", " ">>, result), tr,
                                   <<Format(FMT_objects_header, <<bucket_name>>)>>)
               : l \in list_objects_v2(bucket_name) }
        : g \in _get(bucket_name) }

\* upload once the source file is known to exist: the container check, the
\* default of dest_object_name, and the SDK call
upload_checked(source_file_name, bucket_name, dest_object_name) ==
    UNION {
        IF g.ret = "raise" THEN {Raise(g.exc, g.trace, <<>>)}
        ELSE IF g.ret = "False"
        THEN {Return(_error_messages("non_existent_bucket"), g.trace, <<>>)}
        ELSE LET dest == IF dest_object_name = <<>> THEN source_file_name
                         ELSE dest_object_name
                 file_extension == _get_file_extension(source_file_name)
             IN  IF file_extension = <<>>
                 THEN \* None[1]
                      {Raise([NoExc EXCEPT !.cls = "TypeError"], g.trace, <<>>)}
                 ELSE { LET tr == g.trace \o
                                  <<Called("upload_file",
                                           <<source_file_name, bucket_name, dest,
                                             file_extension[2]>>, u)>>
                        IN  \* the call is made before the try block is entered
                            IF u.exc # NoExc THEN Raise(u.exc, tr, <<>>)
                            ELSE Result("return",
                                        Format(FMT_uploaded, <<source_file_name, bucket_name>>),
                                        NoExc, tr, <<>>, u, time_in_millis)
                        : u \in upload_file(source_file_name, bucket_name, dest,
                                            file_extension[2]) }
        : g \in _get(bucket_name) }

\* a bug upload could have: the source file is not looked for
upload_unchecked(source_file_name, bucket_name, dest_object_name) ==
    upload_checked(source_file_name, bucket_name, dest_object_name)

upload(source_file_name, bucket_name, dest_object_name) ==
    IF source_file_name \notin DOMAIN files
    THEN {Return(_error_messages("missing_source_file"), <<>>, <<>>)}
    ELSE upload_checked(source_file_name, bucket_name, dest_object_name)

\* a bug download could have: the taken path is used as it is
backup_name_same(source_file_name, t) == source_file_name

\* download's path when the clock reads t: a taken path gets the suffix
\* '.bak.' + str(time_in_millis)
backup_name(source_file_name, t) ==
    IF source_file_name \in DOMAIN files
    THEN source_file_name \o BAK_INFIX \o ToStr(t)
    ELSE source_file_name

download(dest_object_name, bucket_name, source_file_name) ==
    UNION {
        IF g.ret = "raise" THEN {Raise(g.exc, g.trace, <<>>)}
        ELSE IF g.ret = "False"
        THEN {Return(_error_messages("non_existent_bucket"), g.trace, <<>>)}
        ELSE UNION {
            IF go.ret = "raise" THEN {Raise(go.exc, g.trace \o go.trace, <<>>)}
            ELSE IF go.ret = "False"
            THEN {Return(_error_messages("non_existent_object"), g.trace \o go.trace, <<>>)}
            ELSE LET target == IF source_file_name = <<>> THEN dest_object_name
                               ELSE source_file_name
                     \* the clock is read only when the target path is taken
                     reads == IF target \in DOMAIN files THEN Times ELSE {time_in_millis}
                 IN  UNION {
                        LET path == backup_name(target, t)
                        IN  { LET tr == g.trace \o go.trace \o
                                        <<Called("download_file",
                                                 <<bucket_name, dest_object_name, path>>, d)>>
                              IN  \* the call is made before the try block is entered
                                  IF d.exc # NoExc
                                  THEN Result("raise", <<>>, d.exc, tr, <<>>, d, t)
                                  ELSE Result("return",
                                              Format(FMT_downloaded,
                                                     <<dest_object_name, bucket_name>>),
                                              NoExc, tr, <<>>, d, t)
                              : d \in download_file(bucket_name, dest_object_name, path) }
                        : t \in reads }
            : go \in _get_object(bucket_name, dest_object_name) }
        : g \in _get(bucket_name) }

delete(dest_object_name, bucket_name) ==
    UNION {
        IF g.ret = "raise" THEN {Raise(g.exc, g.trace, <<>>)}
        ELSE IF g.ret = "False"
        THEN {Return(_error_messages("non_existent_bucket"), g.trace, <<>>)}
        ELSE UNION {
            IF go.ret = "raise" THEN {Raise(go.exc, g.trace \o go.trace, <<>>)}
            ELSE IF go.ret = "False"
            THEN {Return(_error_messages("non_existent_object"), g.trace \o go.trace, <<>>)}
            ELSE { LET tr == g.trace \o go.trace \o
                             <<Called("delete_object",
                                      <<bucket_name, dest_object_name>>, d)>>
                   IN  \* the call is made before the try block is entered
                       IF d.exc # NoExc THEN Raise(d.exc, tr, <<>>)
                       ELSE Result("return",
                                   Format(FMT_deleted, <<dest_object_name, bucket_name>>),
                                   NoExc, tr, <<>>, d, time_in_millis)
                   : d \in delete_object(bucket_name, dest_object_name) }
            : go \in _get_object(bucket_name, dest_object_name) }
        : g \in _get(bucket_name) }

\* a bug deletedir could have: every ClientError is reported alike
deletedir_except_plain(bucket_name, e) ==
    Format(FMT_bucket_del_failed, <<bucket_name, StrExc(e)>>)

\* what deletedir's except ClientError clause returns
deletedir_except(bucket_name, e) ==
    IF e.code = <<"B", "u", "c", "k", "e", "t", "N", "o", "t", "E", "m", "p", "t", "y">>
    THEN _error_messages("bucket_not_empty")
    ELSE Format(FMT_bucket_del_failed, <<bucket_name, StrExc(e)>>)

deletedir(bucket_name) ==
    UNION {
        IF g.ret = "raise" THEN {Raise(g.exc, g.trace, <<>>)}
        ELSE IF g.ret = "False"
        THEN {Return(_error_messages("non_existent_bucket"), g.trace, <<>>)}
        ELSE { LET tr == g.trace \o <<Called("delete_bucket", <<bucket_name>>, d)>>
               IN  IF d.exc = NoExc
                   THEN Result("return", Format(FMT_bucket_deleted, <<bucket_name>>),
                               NoExc, tr, <<>>, d, time_in_millis)
                   ELSE IF IsSubclass(d.exc.cls, "ClientError")
                   THEN Return(deletedir_except(bucket_name, d.exc), tr, <<>>)
                   ELSE Raise(d.exc, tr, <<>>)
               : d \in delete_bucket(bucket_name) }
        : g \in _get(bucket_name) }

find(file_extension, bucket_name) ==
    {Return(_error_messages("not_implemented"), <<>>, <<>>)}

\* ------------------------------------------------------------- dispatch
Dispatched(p, w, r) == [parts |-> p, wrapper |-> w, r |-> r]

To(p, w, rs) == {Dispatched(p, w, r) : r \in rs}

\* a response dispatch makes itself, calling no method
Direct(p, val) == {Dispatched(p, "", Return(val, <<>>, <<>>))}

\* a bug dispatch could have: createdir's missing name counted like the others
dispatch_createdir_counted(p) ==
    IF Len(p) > 1 THEN To(p, "createdir", createdir(p[2]))
    ELSE Direct(p, _error_messages("incorrect_parameter_number"))

dispatch_createdir(p) ==
    IF Len(p) > 1 THEN To(p, "createdir", createdir(p[2]))
    ELSE Direct(p, _error_messages("bucket_name_empty"))

dispatch_upload(p) ==
    IF Len(p) < 3 THEN Direct(p, _error_messages("incorrect_parameter_number"))
    ELSE To(p, "upload", upload(p[2], p[3], IF Len(p) > 3 THEN p[4] ELSE <<>>))

dispatch_download(p) ==
    IF Len(p) < 3 THEN Direct(p, _error_messages("incorrect_parameter_number"))
    ELSE To(p, "download", download(p[2], p[3], IF Len(p) > 3 THEN p[4] ELSE <<>>))

dispatch_delete(p) ==
    IF Len(p) < 3 THEN Direct(p, _error_messages("incorrect_parameter_number"))
    ELSE To(p, "delete", delete(p[2], p[3]))

dispatch_deletedir(p) ==
    IF Len(p) < 2 THEN Direct(p, _error_messages("incorrect_parameter_number"))
    ELSE To(p, "deletedir", deletedir(p[2]))

dispatch_find(p) == To(p, "find", find(<<>>, <<>>))

dispatch_listdir(p) ==
    To(p, "listdir", listdir(IF Len(p) > 1 THEN p[2] ELSE <<>>))

dispatch(cs) ==
    LET p == SplitOn(cs, " ")
    IN  IF p[1] = KW_createdir THEN dispatch_createdir(p)
        ELSE IF p[1] = KW_upload THEN dispatch_upload(p)
        ELSE IF p[1] = KW_download THEN dispatch_download(p)
        ELSE IF p[1] = KW_delete THEN dispatch_delete(p)
        ELSE IF p[1] = KW_deletedir THEN dispatch_deletedir(p)
        ELSE IF p[1] = KW_find THEN dispatch_find(p)
        ELSE IF p[1] = KW_listdir THEN dispatch_listdir(p)
        ELSE Direct(p, MSG_not_recognized)

\* ----------------------------------------------------------------- main
\* a bug main could have: the line is handed on as typed
Collapse_none(s) == s

\* " ".join(command_string.split())
Collapse(s) == Join(<<" ">>, SplitWs(s))

\* a bug main could have: only the SDK's service errors are caught
main_except_narrow == "ClientError"

\* the class named by main's except clause
main_except == "Exception"

\* a run of n whitespace characters, spaces and tabs alternating
Ws(n) == [i \in 1..n |-> IF i % 2 = 1 THEN " " ELSE "\t"]

\* Each line with what main makes of it before it looks at it.
Typed(lines) == {[line |-> l, command_string |-> Collapse(l)] : l \in lines}

\* The first token of a typed line: a command keyword, or a word that is none.
FirstTokens ==
    {KW_createdir, KW_upload, KW_download, KW_delete, KW_deletedir, KW_find,
     KW_listdir, KW_exit, KW_help} \cup Names

ArgLists == UNION {[1..n -> Names] : n \in 0..MaxArgs}

\* The lines of a user who types every command, the tokens one space apart.
Inputs == {Join(<<" ">>, <<k>> \o a) : k \in FirstTokens, a \in ArgLists}

TypedInputs == Typed(Inputs)

\* The lines of a user who transfers no file and types carelessly: runs of p
\* whitespace characters before, between and after the tokens, and blank lines.
ShellTokens ==
    {KW_createdir, KW_deletedir, KW_find, KW_listdir, KW_exit, KW_help} \cup Names

ShellInputs ==
    {Join(<<" ">>, <<k>> \o a) : k \in ShellTokens, a \in ArgLists}
    \cup UNION {{Ws(p) \o Join(Ws(p), <<k>> \o a) \o Ws(p) :
                    k \in ShellTokens, a \in ArgLists} : p \in 1..MaxPad}
    \cup {Ws(p) : p \in 0..MaxPad}

TypedShellInputs == Typed(ShellInputs)

\* The end of an iteration whose body came to r: print the response, or the
\* exception when the except clause catches it; otherwise the loop is left.
Finish(l, cs, p, w, r, printed) ==
    /\ line' = l
    /\ command_string' = cs
    /\ parts' = p
    /\ wrapper' = w
    /\ response' = [kind |-> r.kind, val |-> r.val, exc |-> r.exc]
    /\ trace' = r.trace
    /\ buckets' = r.buckets
    /\ objects' = r.objects
    /\ files' = r.files
    /\ time_in_millis' = r.time
    /\ IF r.kind = "return"
       THEN /\ stdout' = printed \o r.out \o <<r.val>>
            /\ pc' = "running"
       ELSE IF IsSubclass(r.exc.cls, main_except)
       THEN /\ stdout' = printed \o r.out \o <<StrExc(r.exc)>>
            /\ pc' = "running"
       ELSE /\ stdout' = printed \o r.out
            /\ pc' = IF r.exc.cls = "SystemExit" THEN "exited" ELSE "crashed"

\* input() raises EOFError: standard input is at its end
ReadError ==
    /\ pc = "running"
    /\ Finish(<<>>, <<>>, <<>>, "",
              Raise([NoExc EXCEPT !.cls = "EOFError",
                                  !.msg = <<"E", "O", "F", " ", "w", "h", "e", "n", " ", "r", "e", "a", "d", "i", "n", "g", " ", "a", " ", "l", "i", "n", "e">>], <<>>, <<>>),
              <<>>)

\* command_string == 'exit': print the farewell, exit() raises SystemExit
Exit(typed) ==
    /\ pc = "running"
    /\ \E t \in typed :
        /\ t.command_string = KW_exit
        /\ Finish(t.line, t.command_string, <<>>, "",
                  Raise([NoExc EXCEPT !.cls = "SystemExit"], <<>>, <<>>),
                  <<MSG_goodbye>>)

\* command_string == 'help'
Help(typed) ==
    /\ pc = "running"
    /\ \E t \in typed :
        /\ t.command_string = KW_help
        /\ line' = t.line
        /\ command_string' = t.command_string
        /\ parts' = <<>>
        /\ wrapper' = "help"
        /\ response' = [kind |-> "none", val |-> <<>>, exc |-> NoExc]
        /\ trace' = <<>>
        /\ stdout' = help_lines
        /\ pc' = "running"
        /\ UNCHANGED <<buckets, objects, files, time_in_millis>>

\* any other line: response = s3_handler.dispatch(command_string); print(response)
Command(typed) ==
    /\ pc = "running"
    /\ \E t \in typed :
        /\ t.command_string \notin {KW_exit, KW_help}
        /\ \E d \in dispatch(t.command_string) :
              Finish(t.line, t.command_string, d.parts, d.wrapper, d.r, <<>>)

\* The account and the directory the shell is started in: the container may
\* exist, holding an object or not, and the file may exist.
Init ==
    /\ buckets \in {{}, Names}
    /\ objects \in {<<>>} \cup {(<<b, k>> :> "remote") : b \in buckets, k \in Names}
    /\ files \in {<<>>} \cup {(n :> "local") : n \in Names}
    /\ pc = "running"
    /\ line = <<>>
    /\ command_string = <<>>
    /\ parts = <<>>
    /\ wrapper = ""
    /\ response = [kind |-> "none", val |-> <<>>, exc |-> NoExc]
    /\ trace = <<>>
    /\ stdout = <<>>
    /\ time_in_millis = 0

Next ==
    \/ ReadError
    \/ Exit(TypedInputs)
    \/ Help(TypedInputs)
    \/ Command(TypedInputs)

Spec == Init /\ [][Next]_vars

NextShell ==
    \/ ReadError
    \/ Exit(TypedShellInputs)
    \/ Help(TypedShellInputs)
    \/ Command(TypedShellInputs)

SpecShell == Init /\ [][NextShell]_vars

\* ------------------------------------------------------------ properties
\* the positions of the calls of op in trace tr
Calls(tr, op) == {i \in DOMAIN tr : tr[i].op = op}

\* the iteration's call returned exactly msg
Returned(r, msg) == r.kind = "return" /\ r.val = msg

\* what the existence check named op reported in trace tr
Reported(tr, op, ret) == \E i \in Calls(tr, op) : tr[i].ret = ret

IsBlank(s) == \A i \in DOMAIN s : s[i] \in Whitespace

\* C1: dispatch answers upload, download and delete with fewer than 2
\* arguments, and deletedir with fewer than 1, with the
\* incorrect_parameter_number message and calls no method and no backend
\* operation; createdir with no argument gets the bucket_name_empty message
\* instead; find and listdir never get incorrect_parameter_number.
C1_ArgumentCounts ==
    parts # <<>> =>
        LET args == Len(parts) - 1
            refused(msg) == /\ Returned(response, _error_messages(msg))
                            /\ wrapper = ""
                            /\ trace = <<>>
        IN  /\ (parts[1] \in {KW_upload, KW_download, KW_delete} /\ args < 2)
                  => refused("incorrect_parameter_number")
            /\ (parts[1] = KW_deletedir /\ args < 1)
                  => refused("incorrect_parameter_number")
            /\ (parts[1] = KW_createdir /\ args = 0)
                  => refused("bucket_name_empty")
            /\ parts[1] \in {KW_find, KW_listdir}
                  => ~Returned(response, _error_messages("incorrect_parameter_number"))

C1_Witness ==
    /\ parts = <<KW_createdir>>
    /\ Returned(response, _error_messages("bucket_name_empty"))

\* C2: createdir calls the backend's create, with region us-east-2, exactly
\* when the name is non-empty and the existence check reports the container
\* absent, and then once; a container reported present gives the
\* bucket_name_exists message and no create; after a report of absence the
\* message returned contains the name.
C2_CreatedirCreates ==
    wrapper = "createdir" =>
        LET bucket_name == parts[2]
            creates == Calls(trace, "create_bucket")
        IN  /\ Cardinality(creates) <= 1
            /\ creates # {} <=> (bucket_name # <<>> /\ Reported(trace, "_get", "False"))
            /\ \A i \in creates : trace[i].args = <<bucket_name, REGION>>
            /\ Reported(trace, "_get", "True")
                  => /\ Returned(response, _error_messages("bucket_name_exists"))
                     /\ creates = {}
            /\ (Reported(trace, "_get", "False") /\ response.kind = "return")
                  => Contains(response.val, bucket_name)

C2_Witness ==
    /\ wrapper = "createdir"
    /\ Reported(trace, "_get", "False")
    /\ \E i \in Calls(trace, "create_bucket") : trace[i].ret = "ok"
    /\ response.kind = "return"
    /\ parts[2] \in buckets

\* C3: upload of a source file that is not in the local directory returns
\* the missing_source_file message and makes no backend call, whatever the
\* container and destination names; the backend and the directory are left
\* as they were.
C3_UploadMissingSource ==
    [][ (wrapper' = "upload" /\ parts'[2] \notin DOMAIN files)
            => /\ Returned(response', _error_messages("missing_source_file"))
               /\ trace' = <<>>
               /\ UNCHANGED <<buckets, objects, files>> ]_vars

C3_Witness ==
    /\ wrapper = "upload"
    /\ parts[2] \notin DOMAIN files
    /\ Returned(response, _error_messages("missing_source_file"))

C5_DeletedirRefusals ==
    [][ wrapper' = "deletedir"
            => LET bucket_name == parts'[2]
                   deletes == Calls(trace', "delete_bucket")
               IN  /\ (\E i \in deletes : trace'[i].code = <<"B", "u", "c", "k", "e", "t", "N", "o", "t", "E", "m", "p", "t", "y">>)
                         => /\ Returned(response', _error_messages("bucket_not_empty"))
                            /\ bucket_name \in buckets'
                            /\ UNCHANGED <<buckets, objects>>
                   /\ Reported(trace', "_get", "False")
                         => /\ Returned(response', _error_messages("non_existent_bucket"))
                            /\ deletes = {} ]_vars

C5_Witness ==
    /\ wrapper = "deletedir"
    /\ \E i \in Calls(trace, "delete_bucket") : trace[i].code = <<"B", "u", "c", "k", "e", "t", "N", "o", "t", "E", "m", "p", "t", "y">>
    /\ Returned(response, _error_messages("bucket_not_empty"))
    /\ parts[2] \in buckets
    /\ KeysOf(parts[2]) # {}

\* C6: listdir with no name returns the names of all containers joined by
\* ', '; listdir of an existing container returns the keys of the objects in
\* it joined by ', ', one entry per object.
C6_ListdirKeys ==
    (wrapper = "listdir" /\ response.kind = "return")
        => IF Len(parts) = 1
           THEN response.val = Join(<<",", " ">>, Sorted(buckets))
           ELSE Reported(trace, "_get", "True")
                   => response.val = Join(<<",", " ">>, Sorted(KeysOf(parts[2])))

\* C7: the loop is left only by the line that collapses to 'exit': an
\* exception raised while a line is read or dispatched is caught and
\* printed, and the loop goes on.
C7_ShellSurvives ==
    /\ pc \in {"running", "exited"}
    /\ command_string = Collapse(line)
    /\ pc = "exited" <=> command_string = KW_exit
    /\ (response.kind = "raise" /\ command_string # KW_exit)
          => /\ pc = "running"
             /\ stdout # <<>>
             /\ stdout[Len(stdout)] = StrExc(response.exc)

C7_Witness ==
    /\ response.kind = "raise"
    /\ response.exc.cls = "AttributeError"
    /\ wrapper = "listdir"
    /\ Len(line) > Len(command_string)
    /\ pc = "running"

\* C8: when the upload, download or delete-object call of the backend fails
\* after validation has passed, the wrapper returns a 'Failed to ...' string
\* and raises nothing.
C8_BackendFailureReturned ==
    \A w \in {"upload", "download", "delete"} :
        LET call == CASE w = "upload" -> "upload_file"
                      [] w = "download" -> "download_file"
                      [] w = "delete" -> "delete_object"
        IN  (wrapper = w /\ \E i \in Calls(trace, call) : trace[i].ret = "raise")
                => /\ response.kind = "return"
                   /\ StartsWith(response.val, <<"F", "a", "i", "l", "e", "d", " ", "t", "o", " ">>)

\* what an existence check reported after the head call at position i
CheckAfter(i) == trace[i + 1].ret

HeadCalls == Calls(trace, "head_bucket") \cup Calls(trace, "head_object")

\* C9 as claimed: _get and _get_object return true exactly on a 200, false
\* exactly on a 404, and raise for every other status or error code.
C9_ExistenceCheckStrict ==
    \A i \in HeadCalls :
        LET confirmed == (trace[i].ret = "ok" /\ trace[i].status = 200)
                         \/ trace[i].code = <<"2", "0", "0">>
            not_found == trace[i].code = <<"4", "0", "4">>
        IN  /\ CheckAfter(i) = "True" <=> confirmed
            /\ CheckAfter(i) = "False" <=> not_found
            /\ CheckAfter(i) = "raise" <=> ~confirmed /\ ~not_found

\* C9 as the code has it: true exactly on a 200; false exactly on the error
\* code 404 or on a response the SDK returned with a status other than 200;
\* every other error is raised, and one that carries no response surfaces
\* as the AttributeError of reading its response.
C9_ExistenceCheck ==
    \A i \in HeadCalls :
        LET confirmed == (trace[i].ret = "ok" /\ trace[i].status = 200)
                         \/ trace[i].code = <<"2", "0", "0">>
            absent == \/ trace[i].code = <<"4", "0", "4">>
                      \/ trace[i].ret = "ok" /\ trace[i].status # 200
        IN  /\ trace[i + 1].op = IF trace[i].op = "head_bucket" THEN "_get"
                                 ELSE "_get_object"
            /\ CheckAfter(i) = "True" <=> confirmed
            /\ CheckAfter(i) = "False" <=> absent
            /\ CheckAfter(i) = "raise" <=> ~confirmed /\ ~absent
            /\ CheckAfter(i) = "raise"
                  => trace[i + 1].cls = IF trace[i].cls = "ClientError"
                                        THEN "ClientError" ELSE "AttributeError"

C9_Witness ==
    \E i \in Calls(trace, "head_bucket"), j \in Calls(trace, "head_object") :
        /\ trace[i].ret = "ok" /\ trace[i].status = 200 /\ CheckAfter(i) = "True"
        /\ trace[j].ret = "ok" /\ trace[j].status # 200 /\ CheckAfter(j) = "False"

\* the iteration got as far as calling dispatch
DispatchCalled ==
    response.kind # "none" /\ response.exc.cls \notin {"EOFError", "SystemExit"}

\* C10 as claimed: no token dispatch gets from any line is the empty string.
C10_NoEmptyToken ==
    \A i \in DOMAIN parts : parts[i] # <<>>

\* C10 as the code has it: the tokens dispatch gets from a line that holds a
\* character other than whitespace are never empty, however the whitespace
\* lies; from an empty or all-whitespace line it gets the one token ''.
C10_TokensOfLine ==
    DispatchCalled
        => IF IsBlank(line)
           THEN parts = << <<>> >>
           ELSE /\ parts # <<>>
                /\ \A i \in DOMAIN parts : parts[i] # <<>>
                /\ \A i \in DOMAIN parts : \A j \in DOMAIN parts[i] :
                      parts[i][j] \notin Whitespace

C10_Witness ==
    /\ DispatchCalled
    /\ Len(parts) >= 2
    /\ line[1] \in Whitespace
    /\ line[Len(line)] \in Whitespace
    /\ \E i \in 1..(Len(line) - 1) : line[i] \in Whitespace /\ line[i + 1] \in Whitespace
    /\ \A i \in DOMAIN parts : parts[i] # <<>>

====
